---- MODULE Spec2Model ----
(***************************************************************************)
(* A model of planetutils/planet.py: the replication update pipeline       *)
(* (PlanetUpdaterOsmosis), the snapshot downloaders (PlanetDownloaderHttp, *)
(* PlanetDownloaderS3) and the config-file extractor                       *)
(* (PlanetExtractorOsmium).  The file system, the external tools and the   *)
(* remote services are the environment: every call of an external tool     *)
(* may succeed or fail.                                                    *)
(***************************************************************************)
EXTENDS Integers, Sequences, FiniteSets, TLC

\* ------------------------------------------------------------------ bounds
\* update_planet runs started in one behaviour
MaxRuns == 3
\* greatest position of the remote change stream
MaxPos == 2
\* acquisition calls made in one behaviour
MaxCalls == 3
\* extraction calls made in one behaviour
MaxExtracts == 2
\* tokens in the output of osmconvert --out-timestamp
MaxDirect == 2
\* tokens in the output of osmconvert --out-statistics
MaxStats == 5

VARIABLES
    \* --- the file system
    snapshot,     \* os.path.exists(self.osmpath)
    workdir,      \* self.osmosis_workdir: "absent", "dir" or "file"
    config,       \* configuration.txt: "none", "partial" or the baseUrl written
    state,        \* state.txt: [exists, valid, pos], pos a stream position
    changeset,    \* changeset.osm.gz: <<>> or <<from, to>>
    out,          \* outpath: <<>> or <<base, from, to>>
    \* --- the environment
    head,         \* newest position of the remote change stream
    snapPos,      \* position of the stream the snapshot file is at
    \* --- the update_planet calls, one per caller
    pc,           \* position of the call
    url,          \* self.changeset_url
    ts,           \* local `timestamp` of get_timestamp / _initialize_state
    blob,         \* local `state` of _initialize_state
    fetched,      \* the changeset the call's _get_changeset wrote
    err,          \* the exception the call raised, "" if none
    \* --- history of the calls (not read by the program)
    log,          \* external actions of the call, in order
    atStart,      \* the workdir's artifacts when the call began
    failPhase,    \* phase (1..4) in which the call failed, 0 if none
    resumeFrom,   \* failPhase of the run that ended before this one began
    lastFail,     \* failPhase of the run that ended last
    runs,         \* update_planet calls begun
    overlapped,   \* a call began while another call was under way
    initCalls,    \* invocations of --read-replication-interval-init
    initEntered,  \* _initialize calls entered
    firstInit,    \* outcome of the first _initialize call on the workdir
    cfgWrites,    \* times configuration.txt was written
    stateWrites,  \* times state.txt was written by the pipeline
    lookups,      \* requests to the sequence-lookup service
    swallowed,    \* OSErrors caught and dropped by _initialize
    \* --- acquisition (PlanetDownloaderHttp, PlanetDownloaderS3)
    planetData,   \* what the file at self.osmpath holds
    boto3,        \* whether `import boto3` succeeded
    objects,      \* keys of the objects the bucket lists under the prefix
    aerr,         \* per variant, the exception its last call raised
    lastCall,     \* the last acquisition call and whether the target existed
    acalls,       \* acquisition calls made
    transfers,    \* curl and s3.download_file invocations
    listings,     \* bucket listings
    downloaded,   \* keys the last download_planet_latest call asked for
    \* --- extraction (PlanetExtractorOsmium)
    runner,       \* self.command: "execute" (subprocess) or "record"
    recorded,     \* the args list of extract_commands
    executed,     \* external processes spawned by the extractor
    epc,          \* position of the extract_bboxes call
    bboxes,       \* bboxes.items() of the call: <<name, geometry type>> pairs
    extracts,     \* local `extracts`
    epath,        \* local `path`: the temporary file's name, 0 for None
    eerr,         \* the exception the call raised, "" if none
    tempfiles,    \* temporary files that exist
    tmpMade,      \* temporary files created so far
    ecalls,       \* extraction calls begun
    extractor,    \* class of the extractor: "osmium", "osmosis", "osmconvert"
    via,          \* entry of the call: "bboxes" or "commands"
    eidx,         \* regions the loop of the sequential variant has passed
    invoked,      \* region names the call attempted an invocation for
    \* PlanetUpdaterOsmium
    opc,          \* "idle", or how the last call ended: "done", "failed"
    oerr,         \* the exception the call ended with
    pyosmium,     \* invocations of pyosmium-up-to-date by the call
    \* get_timestamp on its own
    tpc,          \* position of the call of get_timestamp
    timestamp,    \* the local variable timestamp
    statistics,   \* the local variable statistics
    direct,       \* what osmconvert --out-timestamp printed
    tcalls,       \* the modes osmconvert was invoked in, in order
    tresult,      \* the value returned
    terr          \* the exception the call ended with

fsVars   == <<snapshot, workdir, config, state, changeset, out>>
envVars  == <<head, snapPos>>
callVars == <<pc, url, ts, blob, fetched, err>>
histVars == <<log, atStart, failPhase, resumeFrom, lastFail, runs,
              overlapped, initCalls,
              initEntered, firstInit, cfgWrites, stateWrites, lookups,
              swallowed>>
acqVars  == <<planetData, boto3, objects, aerr, lastCall, acalls,
              transfers, listings, downloaded>>
extVars  == <<runner, recorded, executed, epc, bboxes, extracts, epath,
              eerr, tempfiles, tmpMade, ecalls, extractor, via, eidx, invoked>>
osmVars  == <<opc, oerr, pyosmium>>
updVars  == <<workdir, config, state, changeset, out, envVars, callVars,
              histVars, osmVars>>
resVars  == <<tpc, timestamp, statistics, direct, tcalls, tresult, terr>>
vars == <<fsVars, envVars, callVars, histVars, acqVars, extVars, resVars>>

\* the callers that may hold an update_planet call
Callers == {"a", "b"}
Urls    == {"minute", "hour"}
NoFile  == <<>>
NoState == [exists |-> FALSE, valid |-> FALSE, pos |-> 0]
\* state.txt holding the sequence state of stream position p
StateAt(p) == [exists |-> TRUE, valid |-> TRUE, pos |-> p]
\* state.txt created by open(statepath, 'w') and not written completely
PartialState == [exists |-> TRUE, valid |-> FALSE, pos |-> 0]

\* ------------------------------------------------------- update pipeline

\* the snapshot check never failing
SnapshotExistsAlways == TRUE

\* os.path.exists(self.osmpath)
SnapshotExists == snapshot

\* the sentinel of _initialize never seen
ConfigExistsNever == FALSE

\* os.path.exists(configpath)
ConfigExists == config # "none"

\* the sentinel of _initialize_state always seen
StateExistsAlways == TRUE

\* the sentinel of _initialize_state never seen
StateExistsNever == FALSE

\* os.path.exists(statepath)
StateExists == state.exists

\* the not-a-directory check never failing
WorkdirNotADirectoryNever == FALSE

\* os.path.exists(workdir) and not os.path.isdir(workdir)
WorkdirNotADirectory == workdir = "file"

\* changeset_url or 'https://planet.openstreetmap.org/replication/%s' % grain
ChangesetUrl(u) == u

Active(r) == pc[r] \notin {"idle", "done", "failed"}

\* the caller-level mutual exclusion the design relies on: a call begins
\* when every other caller is between calls
Serialized(r) == opc = "idle" /\ \A q \in Callers \ {r} : pc[q] = "idle"

\* phase of update_planet a position of the call belongs to
PhaseOf(p) ==
    CASE p \in {"initialize", "makedirs", "osmosis_init", "write_config"} -> 1
      [] p \in {"initialize_state", "get_timestamp", "out_statistics",
                "urlopen", "write_state"} -> 2
      [] p = "get_changeset" -> 3
      [] p = "apply_changeset" -> 4
      [] OTHER -> 0

\* an exception leaves update_planet: nothing catches it
Raise(r, e) ==
    /\ pc' = [pc EXCEPT ![r] = "failed"]
    /\ err' = [err EXCEPT ![r] = e]
    /\ failPhase' = [failPhase EXCEPT ![r] = PhaseOf(pc[r])]
    /\ lastFail' = PhaseOf(pc[r])

Goto(r, p) ==
    /\ pc' = [pc EXCEPT ![r] = p]
    /\ UNCHANGED <<err, failPhase, lastFail>>

Logged(r, a) == log' = [log EXCEPT ![r] = Append(@, a)]

\* the first _initialize call on the workdir ends with `res`
FirstInitEnds(r, res) ==
    firstInit' = IF firstInit.st = "running" /\ firstInit.by = r
                 THEN [st |-> res, by |-> r] ELSE firstInit

\* update_planet, lines 205-208: the snapshot precondition and changeset_url
UpdatePlanet(r, u) ==
    /\ ~Active(r)
    /\ runs < MaxRuns
    /\ runs' = runs + 1
    /\ overlapped' = (overlapped \/ \E q \in Callers \ {r} : Active(q))
    /\ log' = [log EXCEPT ![r] = <<>>]
    /\ atStart' = [atStart EXCEPT ![r] =
                     [workdir |-> workdir, config |-> config # "none",
                      state |-> state.exists, changeset |-> changeset # NoFile,
                      statePos |-> state.pos]]
    /\ resumeFrom' = [resumeFrom EXCEPT ![r] = lastFail]
    /\ failPhase' = [failPhase EXCEPT ![r] = 0]
    /\ IF SnapshotExists
       THEN /\ url' = [url EXCEPT ![r] = ChangesetUrl(u)]
            /\ pc' = [pc EXCEPT ![r] = "initialize"]
            /\ err' = [err EXCEPT ![r] = ""]
            /\ UNCHANGED lastFail
       ELSE /\ pc' = [pc EXCEPT ![r] = "failed"]
            /\ err' = [err EXCEPT ![r] = "planet file does not exist"]
            /\ lastFail' = 0
            /\ UNCHANGED url
    /\ UNCHANGED <<fsVars, envVars, ts, blob, fetched, initCalls, initEntered,
                   firstInit, cfgWrites, stateWrites, lookups, swallowed>>

\* _initialize, lines 215-219: the configuration.txt sentinel and the
\* not-a-directory check
Initialize(r) ==
    /\ pc[r] = "initialize"
    /\ initEntered' = initEntered + 1
    /\ IF ConfigExists
       THEN /\ Goto(r, "initialize_state")
            /\ firstInit' = IF initEntered = 0
                            THEN [st |-> "completed", by |-> r] ELSE firstInit
       ELSE /\ firstInit' = IF initEntered = 0
                            THEN [st |-> IF WorkdirNotADirectory
                                         THEN "failed" ELSE "running",
                                  by |-> r]
                            ELSE firstInit
            /\ IF WorkdirNotADirectory
               THEN Raise(r, "workdir exists and is not a directory")
               ELSE Goto(r, "makedirs")
    /\ UNCHANGED <<fsVars, envVars, url, ts, blob, fetched, log, atStart,
                   resumeFrom, runs, overlapped, initCalls, cfgWrites,
                   stateWrites, lookups, swallowed>>

\* _initialize, lines 220-223: os.makedirs with every OSError dropped
Makedirs(r) ==
    /\ pc[r] = "makedirs"
    /\ \/ /\ workdir = "absent"
          /\ workdir' = "dir"
          /\ UNCHANGED swallowed
       \/ /\ workdir = "absent"
          /\ swallowed' = swallowed \cup {"EACCES"}
          /\ UNCHANGED workdir
       \/ /\ workdir # "absent"
          /\ swallowed' = swallowed \cup {"EEXIST"}
          /\ UNCHANGED workdir
    /\ Goto(r, "osmosis_init")
    /\ UNCHANGED <<snapshot, config, state, changeset, out, envVars, url, ts,
                   blob, fetched, log, atStart, resumeFrom, runs, overlapped,
                   initCalls, initEntered, firstInit, cfgWrites, stateWrites,
                   lookups>>

\* _initialize, lines 224-227: osmosis --read-replication-interval-init
OsmosisInit(r) ==
    /\ pc[r] = "osmosis_init"
    /\ Logged(r, "init")
    /\ initCalls' = initCalls + 1
    /\ \/ /\ workdir = "dir"
          /\ Goto(r, "write_config")
          /\ UNCHANGED firstInit
       \/ /\ Raise(r, "CalledProcessError")
          /\ FirstInitEnds(r, "failed")
    /\ UNCHANGED <<fsVars, envVars, url, ts, blob, fetched, atStart,
                   resumeFrom, runs, overlapped, initEntered, cfgWrites,
                   stateWrites, lookups, swallowed>>

\* _initialize, lines 228-232: open(configpath, 'w') and the write
WriteConfig(r) ==
    /\ pc[r] = "write_config"
    /\ \/ /\ workdir = "dir"
          /\ config' = url[r]
          /\ cfgWrites' = cfgWrites + 1
          /\ Logged(r, "write_config")
          /\ Goto(r, "initialize_state")
          /\ FirstInitEnds(r, "completed")
       \/ /\ workdir = "dir"
          /\ config' = "partial"
          /\ cfgWrites' = cfgWrites + 1
          /\ Logged(r, "write_config")
          /\ Raise(r, "IOError")
          /\ FirstInitEnds(r, "failed")
       \/ /\ Raise(r, "IOError")
          /\ FirstInitEnds(r, "failed")
          /\ UNCHANGED <<config, cfgWrites, log>>
    /\ UNCHANGED <<snapshot, workdir, state, changeset, out, envVars, url, ts,
                   blob, fetched, atStart, resumeFrom, runs, overlapped,
                   initCalls, initEntered, stateWrites, lookups, swallowed>>

\* _initialize_state, lines 235-237: the state.txt sentinel
InitializeState(r) ==
    /\ pc[r] = "initialize_state"
    /\ IF StateExists
       THEN Goto(r, "get_changeset")
       ELSE Goto(r, "get_timestamp")
    /\ UNCHANGED <<fsVars, envVars, url, ts, blob, fetched, histVars>>

\* get_timestamp, lines 42-46: osmconvert --out-timestamp
GetTimestamp(r) ==
    /\ pc[r] = "get_timestamp"
    /\ Logged(r, "timestamp")
    /\ \/ /\ ts' = [ts EXCEPT ![r] = snapPos]
          /\ Goto(r, "urlopen")
       \/ /\ Goto(r, "out_statistics")
          /\ UNCHANGED ts
       \/ /\ Raise(r, "CalledProcessError")
          /\ UNCHANGED ts
    /\ UNCHANGED <<fsVars, envVars, url, blob, fetched, atStart, resumeFrom,
                   runs, overlapped, initCalls, initEntered, firstInit,
                   cfgWrites, stateWrites, lookups, swallowed>>

\* get_timestamp, lines 47-56: the osmconvert --out-statistics fallback
OutStatistics(r) ==
    /\ pc[r] = "out_statistics"
    /\ Logged(r, "statistics")
    /\ \/ /\ ts' = [ts EXCEPT ![r] = snapPos]
          /\ Goto(r, "urlopen")
       \/ /\ Raise(r, "IndexError")
          /\ UNCHANGED ts
       \/ /\ Raise(r, "CalledProcessError")
          /\ UNCHANGED ts
    /\ UNCHANGED <<fsVars, envVars, url, blob, fetched, atStart, resumeFrom,
                   runs, overlapped, initCalls, initEntered, firstInit,
                   cfgWrites, stateWrites, lookups, swallowed>>

\* _initialize_state, lines 239-240: the sequence-lookup request
Urlopen(r) ==
    /\ pc[r] = "urlopen"
    /\ Logged(r, "lookup")
    /\ lookups' = lookups + 1
    /\ \/ /\ blob' = [blob EXCEPT ![r] = ts[r]]
          /\ Goto(r, "write_state")
       \/ /\ Raise(r, "URLError")
          /\ UNCHANGED blob
    /\ UNCHANGED <<fsVars, envVars, url, ts, fetched, atStart, resumeFrom,
                   runs, overlapped, initCalls, initEntered, firstInit,
                   cfgWrites, stateWrites, swallowed>>

\* _initialize_state, lines 241-242: open(statepath, 'w') and the write
\* (open creates the file; the write may fail, as it does for the bytes of
\* urlopen().read() on a text-mode file under Python 3, and leaves it empty)
WriteState(r) ==
    /\ pc[r] = "write_state"
    /\ \/ /\ workdir = "dir"
          /\ state' = StateAt(blob[r])
          /\ stateWrites' = stateWrites + 1
          /\ Logged(r, "write_state")
          /\ Goto(r, "get_changeset")
       \/ /\ workdir = "dir"
          /\ state' = PartialState
          /\ stateWrites' = stateWrites + 1
          /\ Logged(r, "write_state")
          /\ Raise(r, "IOError")
       \/ /\ Raise(r, "IOError")
          /\ UNCHANGED <<state, stateWrites, log>>
    /\ UNCHANGED <<snapshot, workdir, config, changeset, out, envVars, url,
                   ts, blob, fetched, atStart, resumeFrom, runs, overlapped,
                   initCalls, initEntered, firstInit, cfgWrites, lookups,
                   swallowed>>

\* update_planet without its changeset fetch
GetChangesetDropped(r) ==
    /\ pc[r] = "get_changeset"
    /\ Goto(r, "apply_changeset")
    /\ UNCHANGED <<fsVars, envVars, url, ts, blob, fetched, log, atStart,
                   resumeFrom, runs, overlapped, initCalls, initEntered,
                   firstInit, cfgWrites, stateWrites, lookups, swallowed>>

\* _get_changeset, lines 244-251: osmosis --read-replication-interval reads
\* forward from state.txt, writes changeset.osm.gz and advances state.txt
GetChangeset(r) ==
    /\ pc[r] = "get_changeset"
    /\ Logged(r, "fetch")
    /\ \/ /\ workdir = "dir"
          /\ config \in Urls
          /\ state.valid
          /\ changeset' = <<state.pos, head>>
          /\ fetched' = [fetched EXCEPT ![r] = <<state.pos, head>>]
          /\ state' = StateAt(head)
          /\ Goto(r, "apply_changeset")
       \/ /\ Raise(r, "CalledProcessError")
          /\ UNCHANGED <<changeset, state, fetched>>
    /\ UNCHANGED <<snapshot, workdir, config, out, envVars, url, ts, blob,
                   atStart, resumeFrom, runs, overlapped, initCalls,
                   initEntered, firstInit, cfgWrites, stateWrites, lookups,
                   swallowed>>

\* _apply_changeset, lines 253-262: osmosis --apply-change on the snapshot
ApplyChangeset(r) ==
    /\ pc[r] = "apply_changeset"
    /\ Logged(r, "apply")
    /\ \/ /\ changeset # NoFile
          /\ snapshot
          /\ out' = <<snapPos, changeset[1], changeset[2]>>
          /\ pc' = [pc EXCEPT ![r] = "done"]
          /\ lastFail' = 0
          /\ UNCHANGED <<err, failPhase>>
       \/ /\ Raise(r, "CalledProcessError")
          /\ UNCHANGED out
    /\ UNCHANGED <<snapshot, workdir, config, state, changeset, envVars, url,
                   ts, blob, fetched, atStart, resumeFrom, runs, overlapped,
                   initCalls, initEntered, firstInit, cfgWrites, stateWrites,
                   lookups, swallowed>>

\* the caller takes the result of an ended call; its locals are gone
Collect(r) ==
    /\ pc[r] \in {"done", "failed"}
    /\ pc' = [pc EXCEPT ![r] = "idle"]
    /\ url' = [url EXCEPT ![r] = ""]
    /\ ts' = [ts EXCEPT ![r] = 0]
    /\ blob' = [blob EXCEPT ![r] = 0]
    /\ fetched' = [fetched EXCEPT ![r] = NoFile]
    /\ err' = [err EXCEPT ![r] = ""]
    /\ log' = [log EXCEPT ![r] = <<>>]
    /\ failPhase' = [failPhase EXCEPT ![r] = 0]
    /\ UNCHANGED <<fsVars, envVars, atStart, resumeFrom, lastFail, runs,
                   overlapped, initCalls, initEntered, firstInit, cfgWrites,
                   stateWrites, lookups, swallowed>>

\* a single-call backend that makes the workdir of the interval backend
OsmiumUpdatePlanetMakesWorkdir ==
    /\ opc = "idle"
    /\ \A r \in Callers : pc[r] = "idle"
    /\ IF snapshot
       THEN /\ pyosmium' = pyosmium + 1
            /\ workdir' = IF workdir = "absent" THEN "dir" ELSE workdir
            /\ opc' = "done"
            /\ UNCHANGED oerr
       ELSE /\ opc' = "failed"
            /\ oerr' = "planet file does not exist"
            /\ UNCHANGED <<pyosmium, workdir>>
    /\ UNCHANGED <<snapshot, config, state, changeset, out, envVars, callVars,
                   histVars>>

\* PlanetUpdaterOsmium.update_planet, lines 199-202, called between the calls
\* of the interval backend: the snapshot check, then one run of
\* pyosmium-up-to-date, which writes outpath or exits non-zero
OsmiumUpdatePlanet ==
    /\ opc = "idle"
    /\ \A r \in Callers : pc[r] = "idle"
    /\ IF SnapshotExists
       THEN /\ pyosmium' = pyosmium + 1
            /\ \/ opc' = "done" /\ UNCHANGED oerr
               \/ opc' = "failed" /\ oerr' = "CalledProcessError"
       ELSE /\ opc' = "failed"
            /\ oerr' = "planet file does not exist"
            /\ UNCHANGED pyosmium
    /\ UNCHANGED <<fsVars, envVars, callVars, histVars>>

\* the caller takes the result of an ended call of the single-call backend
OsmiumCollect ==
    /\ opc \in {"done", "failed"}
    /\ opc' = "idle"
    /\ oerr' = ""
    /\ pyosmium' = 0
    /\ UNCHANGED <<fsVars, envVars, callVars, histVars>>

\* the remote change stream grows
RemoteAdvance ==
    /\ head < MaxPos
    /\ head' = head + 1
    /\ UNCHANGED <<fsVars, snapPos, callVars, histVars>>

\* ----------------------------------------------------------- acquisition

\* Object keys are sequences of tokens.  No token is a prefix of another,
\* so comparing token sequences by Rank is comparing the strings they spell.
Tokens == {".", "1", "2", "osm", "pbf", "planet", "x"}

\* position of a token in code-point order
Rank(t) ==
    CASE t = "." -> 1 [] t = "1" -> 2 [] t = "2" -> 3 [] t = "osm" -> 4
      [] t = "pbf" -> 5 [] t = "planet" -> 6 [] t = "x" -> 7

\* the character class [-_:T0-9] of the default pattern
InClass(t) == t \in {"1", "2"}

\* the unescaped `.` of the default pattern: any one character
AnyChar(t) == t \in {".", "1", "2", "x"}

\* re.compile('.*(planet[-_:T0-9]+.osm.pbf)$').match(key), lines 162, 181, 186
Matches(k) ==
    \E i \in 1..Len(k) : \E j \in (i + 1)..Len(k) :
        /\ k[i] = "planet"
        /\ \A n \in (i + 1)..j : InClass(k[n])
        /\ Len(k) = j + 4
        /\ AnyChar(k[j + 1])
        /\ k[j + 2] = "osm"
        /\ AnyChar(k[j + 3])
        /\ k[j + 4] = "pbf"

\* the keys a bucket may list
KeyUniverse ==
    { <<"planet", "1", ".", "osm", ".", "pbf">>,
      <<"planet", "2", ".", "osm", ".", "pbf">>,
      <<"planet", "1", "2", "x", "osm", "x", "pbf">>,
      <<"x", "planet", "1", ".", "osm", ".", "pbf">>,
      <<"planet", "x", ".", "osm", ".", "pbf">>,
      <<"planet", "2", ".", "osm", ".", "pbf", "x">>,
      <<"1", ".", "osm">> }

\* str.__le__ on two keys
RECURSIVE KeyLeq(_, _)
KeyLeq(a, b) ==
    IF a = <<>> THEN TRUE
    ELSE IF b = <<>> THEN FALSE
    ELSE IF Rank(Head(a)) # Rank(Head(b)) THEN Rank(Head(a)) < Rank(Head(b))
    ELSE KeyLeq(Tail(a), Tail(b))

\* _get_planets, lines 184-188: the listed keys the pattern matches
GetPlanets(keys) == {k \in keys : Matches(k)}

\* sorted(objs, key=lambda x: x.key), line 165
RECURSIVE Insert(_, _)
Insert(k, sq) ==
    IF sq = <<>> THEN <<k>>
    ELSE IF KeyLeq(k, Head(sq)) THEN <<k>> \o sq
    ELSE <<Head(sq)>> \o Insert(k, Tail(sq))

RECURSIVE SortedKeys(_)
SortedKeys(S) ==
    IF S = {} THEN <<>>
    ELSE LET k == CHOOSE x \in S : TRUE IN Insert(k, SortedKeys(S \ {k}))

\* objs[0]: the oldest key
LatestAsFirst(objs) == objs[1]

\* objs[-1], line 168
Latest(objs) == objs[Len(objs)]

\* the overwrite guard never seen
TargetExistsNever == FALSE

\* os.path.exists(self.osmpath), lines 150 and 160
TargetExists == snapshot

NoPlanet == [src |-> "none", key |-> <<>>, complete |-> FALSE]

\* the errors the acquisition variants raise
AlreadyExists      == "planet file exists"
MissingCredentials == "please install boto3"

AcquisitionCall(op) ==
    /\ acalls' = acalls + 1
    /\ lastCall' = [op |-> op, existed |-> snapshot]

\* PlanetDownloaderHttp.download_planet, lines 149-153, and _download
DownloadPlanet ==
    /\ AcquisitionCall("http")
    /\ IF TargetExists
       THEN /\ aerr' = [aerr EXCEPT !.http = AlreadyExists]
            /\ UNCHANGED <<snapshot, planetData, transfers>>
       ELSE /\ transfers' = transfers + 1
            /\ \/ /\ snapshot' = TRUE
                  /\ planetData' = [src |-> "http", key |-> <<>>,
                                    complete |-> TRUE]
                  /\ aerr' = [aerr EXCEPT !.http = ""]
               \/ /\ snapshot' = TRUE
                  /\ planetData' = [src |-> "http", key |-> <<>>,
                                    complete |-> FALSE]
                  /\ aerr' = [aerr EXCEPT !.http = "CalledProcessError"]
               \/ /\ aerr' = [aerr EXCEPT !.http = "CalledProcessError"]
                  /\ UNCHANGED <<snapshot, planetData>>
    /\ UNCHANGED <<boto3, objects, listings, downloaded>>

\* PlanetDownloaderS3.download_planet_latest, lines 159-170, with
\* _get_planets and _download
DownloadPlanetLatest ==
    /\ AcquisitionCall("s3")
    /\ IF TargetExists
       THEN /\ aerr' = [aerr EXCEPT !.s3 = AlreadyExists]
            /\ downloaded' = <<>>
            /\ UNCHANGED <<snapshot, planetData, transfers, listings>>
       ELSE IF ~boto3
       THEN /\ aerr' = [aerr EXCEPT !.s3 = MissingCredentials]
            /\ downloaded' = <<>>
            /\ UNCHANGED <<snapshot, planetData, transfers, listings>>
       ELSE LET objs == SortedKeys(GetPlanets(objects)) IN
            /\ listings' = listings + 1
            /\ IF Len(objs) = 0
               THEN /\ aerr' = [aerr EXCEPT !.s3 = "IndexError"]
                    /\ downloaded' = <<>>
                    /\ UNCHANGED <<snapshot, planetData, transfers>>
               ELSE /\ transfers' = transfers + 1
                    /\ downloaded' = <<Latest(objs)>>
                    /\ \/ /\ snapshot' = TRUE
                          /\ planetData' = [src |-> "s3", key |-> Latest(objs),
                                            complete |-> TRUE]
                          /\ aerr' = [aerr EXCEPT !.s3 = ""]
                       \/ /\ aerr' = [aerr EXCEPT !.s3 = "ClientError"]
                          /\ UNCHANGED <<snapshot, planetData>>
    /\ UNCHANGED <<boto3, objects>>

InitAcquisition ==
    /\ planetData = IF snapshot
                    THEN [src |-> "other", key |-> <<>>, complete |-> TRUE]
                    ELSE NoPlanet
    /\ aerr = [http |-> "", s3 |-> ""]
    /\ lastCall = [op |-> "none", existed |-> FALSE]
    /\ acalls = 0
    /\ transfers = 0
    /\ listings = 0
    /\ downloaded = <<>>



\* ------------------------------------------------------------ extraction

Names == {"n1", "n2"}
GeometryTypes == {"LineString", "Polygon", "MultiPolygon", "Point"}

\* the region sets: name -> geometry, as the items of the dict in order
RegionSets ==
    {<<>>}
    \cup {<<<<n, g>>>> : n \in Names, g \in GeometryTypes}
    \cup {<<<<n, g>>, <<m, h>>>> : n \in Names, m \in Names,
                                   g \in GeometryTypes, h \in GeometryTypes}

UniqueNames(items) ==
    \A i \in 1..Len(items) : \A j \in 1..Len(items) :
        i # j => items[i][1] # items[j][1]

\* a manifest builder that leaves regions of unknown geometry type out
RECURSIVE BuildExtractsSkipsUnknown(_)
BuildExtractsSkipsUnknown(items) ==
    IF items = <<>> THEN [ok |-> TRUE, extracts |-> <<>>]
    ELSE LET gt   == Head(items)[2]
             rest == BuildExtractsSkipsUnknown(Tail(items))
         IN IF gt \notin {"LineString", "Polygon", "MultiPolygon"}
            THEN rest
            ELSE [ok |-> TRUE,
                  extracts |-> <<[output |-> Head(items)[1], kind |-> gt]>>
                               \o rest.extracts]

\* PlanetExtractorOsmium.extract_bboxes, lines 111-127: one manifest entry
\* per region, an exception at the first unknown geometry type
RECURSIVE BuildExtracts(_)
BuildExtracts(items) ==
    IF items = <<>> THEN [ok |-> TRUE, extracts |-> <<>>]
    ELSE LET name == Head(items)[1]
             gt   == Head(items)[2]
             rest == BuildExtracts(Tail(items))
             key  == CASE gt = "LineString" -> "bbox"
                       [] gt = "Polygon" -> "polygon"
                       [] gt = "MultiPolygon" -> "multipolygon"
                       [] OTHER -> ""
         IN IF key = "" THEN [ok |-> FALSE, extracts |-> <<>>]
            ELSE [ok |-> rest.ok,
                  extracts |-> IF rest.ok
                               THEN <<[output |-> name, kind |-> key]>>
                                    \o rest.extracts
                               ELSE <<>>]

\* extract_bboxes, lines 110-128: the manifest is built
BeginExtract(items) ==
    /\ epc \in {"idle", "done", "failed"}
    /\ ecalls < MaxExtracts
    /\ ecalls' = ecalls + 1
    /\ bboxes' = items
    /\ epath' = 0
    /\ LET built == BuildExtracts(items) IN
       IF built.ok
       THEN /\ extracts' = built.extracts
            /\ epc' = "tempfile"
            /\ eerr' = ""
       ELSE /\ extracts' = <<>>
            /\ epc' = "failed"
            /\ eerr' = "unknown geometry type for extract"
    /\ UNCHANGED <<executed, tempfiles, tmpMade, extractor, eidx>>
    /\ invoked' = <<>>

\* PlanetExtractorOsmium.extract_bboxes called by the user
ExtractBboxes(items) ==
    /\ extractor = "osmium"
    /\ BeginExtract(items)
    /\ via' = "bboxes"
    /\ UNCHANGED <<runner, recorded>>

\* PlanetExtractor.extract_commands, lines 68-71: self.command is replaced
\* by a lambda appending to a new list, then extract_bboxes runs
ExtractCommands(items) ==
    /\ extractor = "osmium"
    /\ BeginExtract(items)
    /\ via' = "commands"
    /\ runner' = "record"
    /\ recorded' = <<>>

\* lines 129-132: tempfile.NamedTemporaryFile(delete=False) and json.dump
NamedTemporaryFile ==
    /\ epc = "tempfile"
    /\ tmpMade' = tmpMade + 1
    /\ tempfiles' = tempfiles \cup {tmpMade + 1}
    /\ epath' = tmpMade + 1
    /\ epc' = "command"
    /\ UNCHANGED <<runner, recorded, executed, bboxes, extracts, eerr, ecalls,
                   extractor, via, eidx, invoked>>

\* line 133: self.command(['osmium', 'extract', ...])
Command ==
    /\ epc = "command"
    /\ \/ /\ runner = "execute"
          /\ executed' = executed + 1
          /\ \/ epc' = "unlink" /\ UNCHANGED eerr
             \/ epc' = "failed" /\ eerr' = "CalledProcessError"
          /\ UNCHANGED recorded
       \/ /\ runner = "record"
          /\ recorded' = Append(recorded,
                                [config |-> epath, n |-> Len(extracts)])
          /\ epc' = "unlink"
          /\ UNCHANGED <<executed, eerr>>
    /\ UNCHANGED <<runner, bboxes, extracts, epath, tempfiles, tmpMade, ecalls,
                   extractor, via, eidx, invoked>>

\* line 134: os.unlink(path)
Unlink ==
    /\ epc = "unlink"
    /\ tempfiles' = tempfiles \ {epath}
    /\ epc' = "done"
    /\ UNCHANGED <<runner, recorded, executed, bboxes, extracts, epath, eerr,
                   tmpMade, ecalls, extractor, via, eidx, invoked>>


\* the rectangles (left, bottom, right, top) a region may carry
Rects == {<<0, 0, 1, 1>>, <<-180, -90, 180, 90>>, <<1, 0, 0, 1>>,
          <<0, 0, 1, 91>>}

\* bbox.validate_bbox: raises unless left < right, bottom < top and the
\* coordinates are longitudes and latitudes
ValidBbox(b) ==
    /\ b[1] < b[3]
    /\ b[2] < b[4]
    /\ -180 <= b[1] /\ b[3] <= 180
    /\ -90 <= b[2] /\ b[4] <= 90

\* the rectangle region sets: name -> rectangle, as the items of the dict
RectRegionSets ==
    {<<>>}
    \cup {<<<<n, b>>>> : n \in Names, b \in Rects}
    \cup {<<<<n, b>>, <<m, c>>>> : n \in Names, m \in Names,
                                   b \in Rects, c \in Rects}

\* the count given to --tee
TeeCountOffByOne(items) == Len(items) + 1

\* str(len(bboxes)), line 78
TeeCount(items) == Len(items)

\* PlanetExtractorOsmosis.extract_bboxes, lines 79-91: one --bounding-box /
\* --write-pbf group per region, an exception at the first invalid rectangle
RECURSIVE TeeGroups(_)
TeeGroups(items) ==
    IF items = <<>> THEN [ok |-> TRUE, groups |-> <<>>]
    ELSE IF ~ValidBbox(Head(items)[2]) THEN [ok |-> FALSE, groups |-> <<>>]
    ELSE LET rest == TeeGroups(Tail(items)) IN
         [ok |-> rest.ok,
          groups |-> IF rest.ok
                     THEN <<[name |-> Head(items)[1], bbox |-> Head(items)[2]]>>
                          \o rest.groups
                     ELSE <<>>]

\* the call begins: self.command is the runner the instance holds, or the
\* recording lambda when extract_commands (lines 68-71) is the entry
EnterExtract(items, entry) ==
    /\ epc \in {"idle", "done", "failed"}
    /\ ecalls < MaxExtracts
    /\ ecalls' = ecalls + 1
    /\ bboxes' = items
    /\ via' = entry
    /\ invoked' = <<>>
    /\ eidx' = 0
    /\ epath' = 0
    /\ extracts' = <<>>
    /\ IF entry = "commands"
       THEN runner' = "record" /\ recorded' = <<>>
       ELSE UNCHANGED <<runner, recorded>>
    /\ UNCHANGED <<executed, tempfiles, tmpMade, extractor>>

\* PlanetExtractorOsmosis.extract_bboxes, lines 75-91: the argument vector
TeeExtractBboxes(items, entry) ==
    /\ extractor = "osmosis"
    /\ EnterExtract(items, entry)
    /\ IF TeeGroups(items).ok
       THEN epc' = "tee_command" /\ eerr' = ""
       ELSE epc' = "failed" /\ eerr' = "InvalidBoundingBox"

\* PlanetExtractorOsmosis.extract_bboxes, line 92: self.osmosis(*args)
TeeCommand ==
    /\ epc = "tee_command"
    /\ invoked' = <<"tee">>
    /\ \/ /\ runner = "execute"
          /\ executed' = executed + 1
          /\ \/ epc' = "done" /\ UNCHANGED eerr
             \/ epc' = "failed" /\ eerr' = "CalledProcessError"
          /\ UNCHANGED recorded
       \/ /\ runner = "record"
          /\ recorded' = Append(recorded,
                                [tool |-> "osmosis", tee |-> TeeCount(bboxes),
                                 groups |-> TeeGroups(bboxes).groups])
          /\ epc' = "done"
          /\ UNCHANGED <<executed, eerr>>
    /\ UNCHANGED <<runner, bboxes, extracts, epath, tempfiles, tmpMade, ecalls,
                   extractor, via, eidx>>

\* PlanetExtractorOsmconvert.extract_bboxes, lines 95-96: the loop begins
SeqExtractBboxes(items, entry) ==
    /\ extractor = "osmconvert"
    /\ EnterExtract(items, entry)
    /\ eerr' = ""
    /\ epc' = IF items = <<>> THEN "done" ELSE "seq_bbox"

\* PlanetExtractorOsmconvert.extract_bbox, lines 99-107, for the next region
\* of the loop of line 96: an exception of validate_bbox or of the tool
\* leaves the loop
SeqExtractBbox ==
    /\ epc = "seq_bbox"
    /\ LET item == bboxes[eidx + 1]
           next == IF eidx + 1 = Len(bboxes) THEN "done" ELSE "seq_bbox"
       IN IF ~ValidBbox(item[2])
          THEN /\ epc' = "failed"
               /\ eerr' = "InvalidBoundingBox"
               /\ UNCHANGED <<executed, recorded, invoked, eidx>>
          ELSE /\ invoked' = Append(invoked, item[1])
               /\ \/ /\ runner = "execute"
                     /\ executed' = executed + 1
                     /\ \/ /\ epc' = next
                           /\ eidx' = eidx + 1
                           /\ UNCHANGED eerr
                        \/ /\ epc' = "failed"
                           /\ eerr' = "CalledProcessError"
                           /\ UNCHANGED eidx
                     /\ UNCHANGED recorded
                  \/ /\ runner = "record"
                     /\ recorded' = Append(recorded,
                                           [tool |-> "osmconvert",
                                            name |-> item[1],
                                            bbox |-> item[2]])
                     /\ epc' = next
                     /\ eidx' = eidx + 1
                     /\ UNCHANGED <<executed, eerr>>
    /\ UNCHANGED <<runner, bboxes, extracts, epath, tempfiles, tmpMade, ecalls,
                   extractor, via>>


\* ---- PlanetBase.get_timestamp on the text osmconvert prints ----

\* a text is a sequence of tokens: the word invalid, the key of the line
\* looked for, a colon, a blank, a line feed, and a piece of a timestamp
DirectTokens == {"invalid", " ", "\n", "T"}
StatsTokens  == {"timestamp max", ":", " ", "\n", "T"}

TextsOver(S, n) == UNION {[1..k -> S] : k \in 0..n}

DirectOutputs == TextsOver(DirectTokens, MaxDirect)
StatsOutputs  == TextsOver(StatsTokens, MaxStats)

Whitespace == {" ", "\n"}

\* 'invalid' in timestamp
Contains(text, w) == \E i \in 1..Len(text) : text[i] = w

\* str.strip()
RECURSIVE LStrip(_)
LStrip(text) ==
    IF text # <<>> /\ Head(text) \in Whitespace THEN LStrip(Tail(text))
    ELSE text

RECURSIVE RStrip(_)
RStrip(text) ==
    IF text # <<>> /\ text[Len(text)] \in Whitespace
    THEN RStrip(SubSeq(text, 1, Len(text) - 1))
    ELSE text

Strip(text) == RStrip(LStrip(text))

\* str.split('\n'): the pieces between the line feeds
RECURSIVE SplitLines(_, _)
SplitLines(text, line) ==
    IF text = <<>> THEN <<line>>
    ELSE IF Head(text) = "\n" THEN <<line>> \o SplitLines(Tail(text), <<>>)
    ELSE SplitLines(Tail(text), Append(line, Head(text)))

\* i.startswith('timestamp max')
StartsWithTimestampMax(line) == line # <<>> /\ Head(line) = "timestamp max"

\* i.partition(':')[2]: the text after the first colon, empty without one
RECURSIVE AfterColon(_)
AfterColon(line) ==
    IF line = <<>> THEN <<>>
    ELSE IF Head(line) = ":" THEN Tail(line)
    ELSE AfterColon(Tail(line))

\* the list comprehension of lines 52-55
RECURSIVE TimestampMaxOf(_)
TimestampMaxOf(lines) ==
    IF lines = <<>> THEN <<>>
    ELSE IF StartsWithTimestampMax(Head(lines))
         THEN <<Strip(AfterColon(Head(lines)))>> \o TimestampMaxOf(Tail(lines))
         ELSE TimestampMaxOf(Tail(lines))

\* lines 42-45: self.osmconvert(self.osmpath, '--out-timestamp')
OutTimestampMode ==
    /\ tpc = "idle"
    /\ tcalls' = Append(tcalls, "--out-timestamp")
    /\ \/ \E o \in DirectOutputs :
             /\ timestamp' = o
             /\ direct' = o
             /\ tpc' = "test"
             /\ UNCHANGED terr
       \/ /\ tpc' = "failed"
          /\ terr' = "CalledProcessError"
          /\ UNCHANGED <<timestamp, direct>>
    /\ UNCHANGED <<statistics, tresult>>

\* line 46: if 'invalid' in timestamp
InvalidTest ==
    /\ tpc = "test"
    /\ tpc' = IF Contains(timestamp, "invalid") THEN "statistics" ELSE "return"
    /\ UNCHANGED <<timestamp, statistics, direct, tcalls, tresult, terr>>

\* lines 48-51: self.osmconvert(self.osmpath, '--out-statistics')
OutStatisticsMode ==
    /\ tpc = "statistics"
    /\ tcalls' = Append(tcalls, "--out-statistics")
    /\ \/ \E o \in StatsOutputs :
             /\ statistics' = o
             /\ tpc' = "extract"
             /\ UNCHANGED terr
       \/ /\ tpc' = "failed"
          /\ terr' = "CalledProcessError"
          /\ UNCHANGED statistics
    /\ UNCHANGED <<timestamp, direct, tresult>>

\* lines 52-55: the first element of the list of the timestamp max lines
TimestampMax ==
    /\ tpc = "extract"
    /\ LET found == TimestampMaxOf(SplitLines(statistics, <<>>)) IN
       IF found = <<>>
       THEN /\ tpc' = "failed"
            /\ terr' = "IndexError"
            /\ UNCHANGED timestamp
       ELSE /\ timestamp' = found[1]
            /\ tpc' = "return"
            /\ UNCHANGED terr
    /\ UNCHANGED <<statistics, direct, tcalls, tresult>>

\* line 56: return timestamp.strip()
ReturnTimestamp ==
    /\ tpc = "return"
    /\ tresult' = Strip(timestamp)
    /\ tpc' = "done"
    /\ UNCHANGED <<timestamp, statistics, direct, tcalls, terr>>

InitResolver ==
    /\ tpc = "idle"
    /\ timestamp = <<>>
    /\ statistics = <<>>
    /\ direct = <<>>
    /\ tcalls = <<>>
    /\ tresult = <<>>
    /\ terr = ""

InitExtraction ==
    /\ runner = "execute"
    /\ recorded = <<>>
    /\ executed = 0
    /\ epc = "idle"
    /\ bboxes = <<>>
    /\ extracts = <<>>
    /\ epath = 0
    /\ eerr = ""
    /\ tempfiles = {}
    /\ tmpMade = 0
    /\ ecalls = 0
    /\ via = "bboxes"
    /\ eidx = 0
    /\ invoked = <<>>

\* ---------------------------------------------------------- specifications

\* the update pipeline before any call
IdlePipeline ==
    /\ config = "none"
    /\ state = NoState
    /\ changeset = NoFile
    /\ out = NoFile
    /\ head = 0
    /\ snapPos = 0
    /\ pc = [r \in Callers |-> "idle"]
    /\ url = [r \in Callers |-> ""]
    /\ ts = [r \in Callers |-> 0]
    /\ blob = [r \in Callers |-> 0]
    /\ fetched = [r \in Callers |-> NoFile]
    /\ err = [r \in Callers |-> ""]
    /\ log = [r \in Callers |-> <<>>]
    /\ atStart = [r \in Callers |->
                    [workdir |-> "absent", config |-> FALSE, state |-> FALSE,
                     changeset |-> FALSE, statePos |-> 0]]
    /\ failPhase = [r \in Callers |-> 0]
    /\ resumeFrom = [r \in Callers |-> 0]
    /\ lastFail = 0
    /\ runs = 0
    /\ overlapped = FALSE
    /\ initCalls = 0
    /\ initEntered = 0
    /\ firstInit = [st |-> "none", by |-> "a"]
    /\ cfgWrites = 0
    /\ stateWrites = 0
    /\ lookups = 0
    /\ swallowed = {}
    /\ opc = "idle"
    /\ oerr = ""
    /\ pyosmium = 0

\* update_planet on a new workdir path: absent, a directory or a file
Init ==
    /\ snapshot \in BOOLEAN
    /\ workdir \in {"absent", "dir", "file"}
    /\ IdlePipeline
    /\ InitAcquisition
    /\ objects = {}
    /\ boto3 = FALSE
    /\ InitExtraction
    /\ extractor = "osmium"
    /\ InitResolver

\* update_planet calls on one workdir, serialized by the callers
Next ==
    \/ \E r \in Callers, u \in Urls :
           Serialized(r) /\ UpdatePlanet(r, u)
                         /\ UNCHANGED <<osmVars, acqVars, extVars, resVars>>
    \/ \E r \in Callers : Initialize(r)
           /\ UNCHANGED <<osmVars, acqVars, extVars, resVars>>
    \/ \E r \in Callers : Makedirs(r)
           /\ UNCHANGED <<osmVars, acqVars, extVars, resVars>>
    \/ \E r \in Callers : OsmosisInit(r)
           /\ UNCHANGED <<osmVars, acqVars, extVars, resVars>>
    \/ \E r \in Callers : WriteConfig(r)
           /\ UNCHANGED <<osmVars, acqVars, extVars, resVars>>
    \/ \E r \in Callers : InitializeState(r)
           /\ UNCHANGED <<osmVars, acqVars, extVars, resVars>>
    \/ \E r \in Callers : GetTimestamp(r)
           /\ UNCHANGED <<osmVars, acqVars, extVars, resVars>>
    \/ \E r \in Callers : OutStatistics(r)
           /\ UNCHANGED <<osmVars, acqVars, extVars, resVars>>
    \/ \E r \in Callers : Urlopen(r)
           /\ UNCHANGED <<osmVars, acqVars, extVars, resVars>>
    \/ \E r \in Callers : WriteState(r)
           /\ UNCHANGED <<osmVars, acqVars, extVars, resVars>>
    \/ \E r \in Callers : GetChangeset(r)
           /\ UNCHANGED <<osmVars, acqVars, extVars, resVars>>
    \/ \E r \in Callers : ApplyChangeset(r)
           /\ UNCHANGED <<osmVars, acqVars, extVars, resVars>>
    \/ \E r \in Callers : Collect(r)
           /\ UNCHANGED <<osmVars, acqVars, extVars, resVars>>
    \/ RemoteAdvance /\ UNCHANGED <<osmVars, acqVars, extVars, resVars>>
    \/ OsmiumUpdatePlanet /\ UNCHANGED <<acqVars, extVars, resVars>>
    \/ OsmiumCollect /\ UNCHANGED <<acqVars, extVars, resVars>>

Spec == Init /\ [][Next]_vars

\* update_planet calls on one workdir with no mutual exclusion: a caller
\* begins a call whatever the other caller is doing
InitRace == Init

NextRace ==
    \/ \E r \in Callers, u \in Urls :
           pc[r] = "idle" /\ runs < Cardinality(Callers) /\ UpdatePlanet(r, u)
                         /\ UNCHANGED <<osmVars, acqVars, extVars, resVars>>
    \/ \E r \in Callers : Initialize(r)
           /\ UNCHANGED <<osmVars, acqVars, extVars, resVars>>
    \/ \E r \in Callers : Makedirs(r)
           /\ UNCHANGED <<osmVars, acqVars, extVars, resVars>>
    \/ \E r \in Callers : OsmosisInit(r)
           /\ UNCHANGED <<osmVars, acqVars, extVars, resVars>>
    \/ \E r \in Callers : WriteConfig(r)
           /\ UNCHANGED <<osmVars, acqVars, extVars, resVars>>
    \/ \E r \in Callers : InitializeState(r)
           /\ UNCHANGED <<osmVars, acqVars, extVars, resVars>>
    \/ \E r \in Callers : GetTimestamp(r)
           /\ UNCHANGED <<osmVars, acqVars, extVars, resVars>>
    \/ \E r \in Callers : OutStatistics(r)
           /\ UNCHANGED <<osmVars, acqVars, extVars, resVars>>
    \/ \E r \in Callers : Urlopen(r)
           /\ UNCHANGED <<osmVars, acqVars, extVars, resVars>>
    \/ \E r \in Callers : WriteState(r)
           /\ UNCHANGED <<osmVars, acqVars, extVars, resVars>>
    \/ \E r \in Callers : GetChangeset(r)
           /\ UNCHANGED <<osmVars, acqVars, extVars, resVars>>
    \/ \E r \in Callers : ApplyChangeset(r)
           /\ UNCHANGED <<osmVars, acqVars, extVars, resVars>>
    \/ \E r \in Callers : Collect(r)
           /\ UNCHANGED <<osmVars, acqVars, extVars, resVars>>
    \/ RemoteAdvance /\ UNCHANGED <<osmVars, acqVars, extVars, resVars>>

SpecRace == InitRace /\ [][NextRace]_vars

\* acquisition calls against any bucket listing
InitAcquire ==
    /\ snapshot \in BOOLEAN
    /\ workdir = "absent"
    /\ IdlePipeline
    /\ boto3 \in BOOLEAN
    /\ objects \in SUBSET KeyUniverse
    /\ InitAcquisition
    /\ InitExtraction
    /\ extractor = "osmium"
    /\ InitResolver

NextAcquire ==
    \/ acalls < MaxCalls /\ DownloadPlanet
           /\ UNCHANGED <<updVars, extVars, resVars>>
    \/ acalls < MaxCalls /\ DownloadPlanetLatest
                         /\ UNCHANGED <<updVars, extVars, resVars>>

SpecAcquire == InitAcquire /\ [][NextAcquire]_vars

\* extraction calls on any region set
InitExtract ==
    /\ snapshot = TRUE
    /\ workdir = "absent"
    /\ IdlePipeline
    /\ InitAcquisition
    /\ objects = {}
    /\ boto3 = FALSE
    /\ InitExtraction
    /\ extractor \in {"osmium", "osmosis", "osmconvert"}
    /\ InitResolver

NextExtract ==
    \/ \E items \in RegionSets :
           UniqueNames(items) /\ ExtractBboxes(items)
                              /\ UNCHANGED <<snapshot, updVars, acqVars,
                                             resVars>>
    \/ \E items \in RegionSets :
           UniqueNames(items) /\ ExtractCommands(items)
                              /\ UNCHANGED <<snapshot, updVars, acqVars,
                                             resVars>>
    \/ \E items \in RectRegionSets, entry \in {"bboxes", "commands"} :
           UniqueNames(items) /\ TeeExtractBboxes(items, entry)
                              /\ UNCHANGED <<snapshot, updVars, acqVars,
                                             resVars>>
    \/ \E items \in RectRegionSets, entry \in {"bboxes", "commands"} :
           UniqueNames(items) /\ SeqExtractBboxes(items, entry)
                              /\ UNCHANGED <<snapshot, updVars, acqVars,
                                             resVars>>
    \/ TeeCommand /\ UNCHANGED <<snapshot, updVars, acqVars, resVars>>
    \/ SeqExtractBbox /\ UNCHANGED <<snapshot, updVars, acqVars, resVars>>
    \/ NamedTemporaryFile /\ UNCHANGED <<snapshot, updVars, acqVars, resVars>>
    \/ Command /\ UNCHANGED <<snapshot, updVars, acqVars, resVars>>
    \/ Unlink /\ UNCHANGED <<snapshot, updVars, acqVars, resVars>>

SpecExtract == InitExtract /\ [][NextExtract]_vars

\* one call of get_timestamp on any output of osmconvert
InitTimestamp ==
    /\ snapshot = TRUE
    /\ workdir = "absent"
    /\ IdlePipeline
    /\ InitAcquisition
    /\ objects = {}
    /\ boto3 = FALSE
    /\ InitExtraction
    /\ extractor = "osmium"
    /\ InitResolver

NextTimestamp ==
    \/ OutTimestampMode /\ UNCHANGED <<snapshot, updVars, acqVars, extVars>>
    \/ InvalidTest /\ UNCHANGED <<snapshot, updVars, acqVars, extVars>>
    \/ OutStatisticsMode /\ UNCHANGED <<snapshot, updVars, acqVars, extVars>>
    \/ TimestampMax /\ UNCHANGED <<snapshot, updVars, acqVars, extVars>>
    \/ ReturnTimestamp /\ UNCHANGED <<snapshot, updVars, acqVars, extVars>>

SpecTimestamp == InitTimestamp /\ [][NextTimestamp]_vars

\* ------------------------------------------------------------ properties

\* the external actions of the end-to-end scenario, in order
Pipeline == <<"init", "write_config", "lookup", "write_state", "fetch", "apply">>

InPipeline(a) == \E i \in 1..Len(Pipeline) : Pipeline[i] = a

IsPrefix(s, t) == Len(s) <= Len(t) /\ \A i \in 1..Len(s) : s[i] = t[i]

Has(s, a) == \E i \in 1..Len(s) : s[i] = a

\* phase of update_planet an external action belongs to
PhaseOfAction(a) ==
    CASE a \in {"init", "write_config"} -> 1
      [] a \in {"timestamp", "statistics", "lookup", "write_state"} -> 2
      [] a = "fetch" -> 3
      [] a = "apply" -> 4

\* C1: a run that begins with the snapshot present and the workdir absent
\* performs replication-interval init, the write of configuration.txt, the
\* sequence lookup, the write of state.txt, the changeset fetch and the
\* changeset apply in this order, each at most once while it runs and each
\* exactly once when it has returned without a failure.
C1_PipelineOrder ==
    \A r \in Callers :
        atStart[r].workdir = "absent" /\ pc[r] # "idle" =>
            /\ IsPrefix(SelectSeq(log[r], InPipeline), Pipeline)
            /\ pc[r] = "done" => SelectSeq(log[r], InPipeline) = Pipeline

C1_Witness ==
    \E r \in Callers : pc[r] = "done" /\ atStart[r].workdir = "absent"

\* C2: when the first _initialize call on a workdir has completed, the
\* replication-interval initializer has been invoked exactly once, however
\* many _initialize calls followed: configuration.txt is present, it was
\* written once, and no call is past the sentinel of _initialize.
C2_InitializerOnce ==
    firstInit.st = "completed" =>
        /\ initCalls = 1
        /\ cfgWrites = 1
        /\ config # "none"
        /\ \A r \in Callers :
               pc[r] \notin {"makedirs", "osmosis_init", "write_config"}

C2_Witness == firstInit.st = "completed" /\ initEntered >= 2

\* C3: once configuration.txt exists no step writes it or changes its
\* content, and once state.txt exists the pipeline does not write it and
\* only the changeset fetch changes its content.
C3_NeverRegenerated ==
    [][ /\ config # "none" => config' = config /\ cfgWrites' = cfgWrites
        /\ state.exists =>
             /\ stateWrites' = stateWrites
             /\ state' # state =>
                  \E r \in Callers : /\ pc[r] = "get_changeset"
                                     /\ pc'[r] = "apply_changeset"
      ]_vars

C3_Witness ==
    \E r \in Callers :
        /\ pc[r] = "done"
        /\ atStart[r].config /\ atStart[r].state
        /\ config \in Urls /\ url[r] # config
        /\ state.pos # atStart[r].statePos

\* C4: when the external step of phase k fails no action of a later phase
\* happens in that run, the artifacts of the phases before k remain, and
\* the next run resumes at the first incomplete phase: it repeats no action
\* of a phase before k.
C4_ResumeAtFirstIncomplete ==
    \A r \in Callers :
        /\ pc[r] = "failed" /\ failPhase[r] >= 1 =>
             /\ \A i \in 1..Len(log[r]) :
                    PhaseOfAction(log[r][i]) <= failPhase[r]
             /\ failPhase[r] >= 2 => config # "none"
             /\ failPhase[r] >= 3 => state.exists
             /\ failPhase[r] >= 4 => changeset # NoFile
        /\ \A i \in 1..Len(log[r]) :
               PhaseOfAction(log[r][i]) >= resumeFrom[r]

NamedFailure(e) ==
    e \in {"CalledProcessError", "IndexError", "URLError",
           "planet file does not exist",
           "workdir exists and is not a directory"}

\* C6: when a step of update_planet fails, the workdir directory,
\* configuration.txt and state.txt exist exactly as the last completed
\* phase left them, and no error raised inside a phase was swallowed.
C6_FailureLeavesLastPhase ==
    \A r \in Callers :
        pc[r] = "failed" /\ NamedFailure(err[r]) =>
            /\ swallowed \subseteq {"EEXIST"}
            /\ failPhase[r] <= 1 =>
                 /\ workdir = atStart[r].workdir
                 /\ (config # "none") = atStart[r].config
            /\ failPhase[r] <= 2 => state.exists = atStart[r].state

\* a is before b in the order of str: at the first position where they
\* differ a ends or holds the smaller character
KeyBefore(a, b) ==
    \E i \in 1..Len(b) :
        /\ i <= Len(a) + 1
        /\ \A n \in 1..(i - 1) : a[n] = b[n]
        /\ i <= Len(a) => Rank(a[i]) < Rank(b[i])

\* C7: a call of either acquisition variant while the target snapshot path
\* exists raises the already-exists error, starts no transfer, lists no
\* bucket and leaves the file as it was.
C7_ExistingTargetRefused ==
    [][ snapshot /\ acalls' # acalls =>
            /\ aerr'[lastCall'.op] = AlreadyExists
            /\ transfers' = transfers
            /\ listings' = listings
            /\ snapshot'
            /\ planetData' = planetData
      ]_vars

C7_Witness ==
    /\ snapshot
    /\ aerr.http = AlreadyExists
    /\ aerr.s3 = AlreadyExists
    /\ acalls >= 2

\* C8: download_planet_latest with no object-store client fails with
\* MissingCredentials before any listing or download, and with a client and
\* no listed key matching the pattern it fails with the dedicated
\* NoMatchingObject error and attempts no download.
C8_EmptySelectionError ==
    lastCall.op = "s3" /\ ~lastCall.existed =>
        /\ ~boto3 =>
               /\ aerr.s3 = MissingCredentials
               /\ listings = 0
               /\ downloaded = <<>>
        /\ boto3 /\ GetPlanets(objects) = {} =>
               /\ aerr.s3 = "NoMatchingObject"
               /\ downloaded = <<>>

\* the one key the last download_planet_latest call downloaded is the
\* greatest of the listed keys that match the pattern
DownloadedLatestMatching ==
    /\ Len(downloaded) = 1
    /\ downloaded[1] \in objects
    /\ Matches(downloaded[1])
    /\ \A k \in objects :
           Matches(k) => k = downloaded[1] \/ KeyBefore(k, downloaded[1])

\* C9 as stated: for every non-empty set of listed keys, the call downloads
\* exactly one key, the greatest of the matching ones.
C9_LatestOfListed ==
    lastCall.op = "s3" /\ ~lastCall.existed /\ boto3 /\ objects # {} =>
        DownloadedLatestMatching

\* C9 amended: for every set of listed keys of which at least one matches
\* the pattern, the call downloads exactly one key, the greatest of the
\* matching ones; a key that does not match is never downloaded.
C9_LatestOfMatching ==
    /\ lastCall.op = "s3" /\ ~lastCall.existed /\ boto3
         /\ (\E k \in objects : Matches(k)) => DownloadedLatestMatching
    /\ \A i \in 1..Len(downloaded) : Matches(downloaded[i])

C9_Witness ==
    /\ lastCall.op = "s3"
    /\ Len(downloaded) = 1
    /\ \E k \in objects : Matches(k) /\ KeyBefore(k, downloaded[1])
    /\ \E k \in objects : ~Matches(k) /\ KeyBefore(downloaded[1], k)

\* C10: when extract_bboxes has returned or raised, the temporary manifest
\* file it created does not exist.
C10_ManifestRemoved ==
    epc \in {"done", "failed"} /\ epath # 0 => epath \notin tempfiles

\* every region of the set carries a rectangle validate_bbox accepts
AllValid(items) ==
    \A i \in 1..Len(items) :
        /\ items[i][2][1] < items[i][2][3]
        /\ items[i][2][2] < items[i][2][4]
        /\ -180 <= items[i][2][1] /\ items[i][2][3] <= 180
        /\ -90 <= items[i][2][2] /\ items[i][2][4] <= 90

\* C11: when a call of the sequential variant has ended, on a region set
\* whose rectangles are all valid, an invocation was attempted for every
\* region of the set, whichever earlier invocations failed.
C11_InvocationPerRegion ==
    (extractor = "osmconvert" /\ epc \in {"done", "failed"}
        /\ AllValid(bboxes))
    => /\ Len(invoked) = Len(bboxes)
       /\ \A i \in 1..Len(bboxes) : invoked[i] = bboxes[i][1]

\* C12: extract_commands on a valid rectangle region set of N regions ends
\* without an error and has recorded, in the sequential variant, exactly N
\* invocations, one per region name, and in the tee variant exactly one
\* invocation whose --tee count is N and which has N bounding-box/write-pbf
\* groups, one per region name.
C12_RecordedInvocationCount ==
    (extractor \in {"osmconvert", "osmosis"} /\ via = "commands"
        /\ epc \in {"done", "failed"} /\ AllValid(bboxes))
    => /\ epc = "done"
       /\ extractor = "osmconvert" =>
            /\ Len(recorded) = Len(bboxes)
            /\ \A i \in 1..Len(bboxes) :
                  /\ recorded[i].tool = "osmconvert"
                  /\ recorded[i].name = bboxes[i][1]
                  /\ recorded[i].bbox = bboxes[i][2]
       /\ extractor = "osmosis" =>
            /\ Len(recorded) = 1
            /\ recorded[1].tool = "osmosis"
            /\ recorded[1].tee = Len(bboxes)
            /\ Len(recorded[1].groups) = Len(bboxes)
            /\ \A i \in 1..Len(bboxes) :
                  /\ recorded[1].groups[i].name = bboxes[i][1]
                  /\ recorded[1].groups[i].bbox = bboxes[i][2]

\* extract_commands of the tee variant has returned for two valid regions
C12_Witness ==
    /\ extractor = "osmosis"
    /\ via = "commands"
    /\ epc = "done"
    /\ Len(bboxes) = 2
    /\ AllValid(bboxes)
    /\ Len(recorded) = 1
    /\ recorded[1].tee = 2

\* a region of the set has a geometry type the manifest has no key for
HasUnknown(items) ==
    \E i \in 1..Len(items) :
        items[i][2] \notin {"LineString", "Polygon", "MultiPolygon"}

\* C13: a call of the config-file variant on a region set that has a region
\* of unknown geometry type, at any position, ends at once with the unknown
\* geometry error: no process is run, nothing is recorded and no temporary
\* file is created.
C13_UnknownGeometryRaisesFirst ==
    [][(extractor = "osmium" /\ ecalls' = ecalls + 1 /\ HasUnknown(bboxes'))
       => /\ epc' = "failed"
          /\ eerr' = "unknown geometry type for extract"
          /\ executed' = executed
          /\ recorded' \in {recorded, <<>>}
          /\ tmpMade' = tmpMade
          /\ tempfiles' = tempfiles]_vars

\* the unknown geometry is the second region of two and the call has failed
C13_Witness ==
    /\ extractor = "osmium"
    /\ Len(bboxes) = 2
    /\ bboxes[1][2] = "Polygon"
    /\ bboxes[2][2] = "Point"
    /\ epc = "failed"
    /\ eerr = "unknown geometry type for extract"
    /\ tmpMade = 0

\* C16: the substitution of the command runner ends with the call of
\* extract_commands that made it: a call entered through extract_bboxes runs
\* with the executing runner.
C16_SubstitutionScopedToCall ==
    via = "bboxes" => runner = "execute"

\* the first line of the text that starts with the key timestamp max
FirstTimestampMaxLine(text) ==
    LET lines == SplitLines(text, <<>>)
        k == CHOOSE i \in 1..Len(lines) :
                 /\ StartsWithTimestampMax(lines[i])
                 /\ \A j \in 1..(i - 1) : ~StartsWithTimestampMax(lines[j])
    IN lines[k]

HasTimestampMaxLine(text) ==
    \E i \in 1..Len(SplitLines(text, <<>>)) :
        StartsWithTimestampMax(SplitLines(text, <<>>)[i])

\* C15: when get_timestamp has ended after osmconvert printed its direct
\* output: the statistics mode was invoked if and only if the direct output
\* contains "invalid"; without "invalid" the direct output is returned
\* trimmed; with it, the value returned is the trimmed text after the first
\* colon of the timestamp max line of the statistics, and statistics with no
\* such line end the call with ResolutionError.
C15_TimestampResolution ==
    (tpc \in {"done", "failed"} /\ Len(tcalls) = 2
        => Contains(direct, "invalid"))
    /\ (tpc \in {"done", "failed"} /\ Len(tcalls) = 1 /\ terr = ""
        => /\ ~Contains(direct, "invalid")
           /\ tpc = "done"
           /\ tresult = Strip(direct))
    /\ (tpc \in {"done", "failed"} /\ Contains(direct, "invalid")
        => tcalls = <<"--out-timestamp", "--out-statistics">>)
    /\ (tpc \in {"done", "failed"} /\ Len(tcalls) = 2
            /\ terr # "CalledProcessError"
        => IF HasTimestampMaxLine(statistics)
           THEN /\ tpc = "done"
                /\ tresult = Strip(AfterColon(FirstTimestampMaxLine(statistics)))
           ELSE /\ tpc = "failed"
                /\ terr = "ResolutionError")

\* C14: with the snapshot missing, a call of update_planet of either backend
\* ends at once with the snapshot-missing error, and no step runs a tool,
\* enters a phase, makes the workdir or writes an artifact.
C14_SnapshotMissingFirst ==
    [][~snapshot
       => /\ \A r \in Callers :
                /\ pc'[r] \in {"idle", "failed"}
                /\ pc'[r] = "failed" =>
                      /\ err'[r] = "planet file does not exist"
                      /\ log'[r] = <<>>
          /\ runs' = runs + 1 => \E r \in Callers : pc'[r] = "failed"
          /\ opc' \in {"idle", "failed"}
          /\ opc' = "failed" => oerr' = "planet file does not exist"
          /\ pyosmium' = 0
          /\ UNCHANGED <<workdir, config, state, changeset, out, initCalls,
                         initEntered, lookups, cfgWrites, stateWrites>>]_vars

\* both backends were called on a missing snapshot; the single-call backend
\* has just failed
C14_Witness ==
    /\ ~snapshot
    /\ runs > 0
    /\ opc = "failed"
    /\ oerr = "planet file does not exist"
    /\ workdir = "absent"

\* C20: a call of the single-call backend on an existing snapshot is one
\* step that runs pyosmium-up-to-date once and leaves the workdir,
\* configuration.txt, state.txt and changeset.osm.gz as they were; it runs
\* neither the initializer nor a lookup.
C20_SingleCallNoIntermediate ==
    [][snapshot /\ opc = "idle" /\ opc' # "idle"
       => /\ opc' \in {"done", "failed"}
          /\ pyosmium' = 1
          /\ UNCHANGED <<workdir, config, state, changeset, initCalls,
                         lookups, cfgWrites, stateWrites>>]_vars

\* the single-call backend has run beside a bootstrapped workdir
C20_Witness ==
    /\ opc = "done"
    /\ pyosmium = 1
    /\ workdir = "dir"
    /\ config # "none"
    /\ state.exists
    /\ changeset # NoFile

\* a call is about to apply a changeset that is not the one it fetched
StaleApply ==
    \E r \in Callers : pc[r] = "apply_changeset" /\ changeset # fetched[r]

\* C17: the hazards of a shared workdir (configuration.txt written twice,
\* state.txt written twice, a call applying a changeset another call's fetch
\* replaced) arise only in behaviours in which a call began while another
\* call was under way; with the calls serialized none of them is reachable.
C17_HazardsNeedOverlap ==
    (cfgWrites > 1 \/ stateWrites > 1 \/ StaleApply) => overlapped

\* two interleaved calls both ran the initializer and wrote both artifacts,
\* and one is about to apply the changeset of the other
C17_Witness ==
    /\ overlapped
    /\ initCalls = 2
    /\ cfgWrites = 2
    /\ stateWrites = 2
    /\ StaleApply

\* C19: a call that passes the configuration.txt check with the sentinel
\* absent and the workdir path a non-directory ends there with the
\* not-a-directory error, the initializer not run and nothing created or
\* written; with the workdir an existing directory, whoever made it, the call
\* goes through the directory creation without an error and on to the
\* initializer, which is then run.
C19_WorkdirCheck ==
    [][\A r \in Callers :
          /\ (pc[r] = "initialize" /\ pc'[r] # "initialize"
                  /\ config = "none" /\ workdir = "file")
             => /\ pc'[r] = "failed"
                /\ err'[r] = "workdir exists and is not a directory"
                /\ log'[r] = log[r]
                /\ initCalls' = initCalls
                /\ UNCHANGED <<workdir, config, state, changeset, out>>
          /\ (pc[r] = "initialize" /\ pc'[r] # "initialize"
                  /\ config = "none" /\ workdir = "dir")
             => pc'[r] = "makedirs" /\ err'[r] = ""
          /\ (pc[r] = "makedirs" /\ pc'[r] # "makedirs" /\ workdir = "dir")
             => /\ pc'[r] = "osmosis_init"
                /\ err'[r] = ""
                /\ workdir' = "dir"
          /\ (pc[r] = "osmosis_init" /\ pc'[r] # "osmosis_init")
             => initCalls' = initCalls + 1]_vars

\* a call has failed on a workdir path that is a file, before the initializer
C19_Witness ==
    \E r \in Callers :
        /\ pc[r] = "failed"
        /\ err[r] = "workdir exists and is not a directory"
        /\ workdir = "file"
        /\ config = "none"
        /\ initCalls = 0
        /\ log[r] = <<>>

\* C18: whenever an apply has succeeded, the changeset it applied starts at
\* the position the snapshot is at, so that the output holds every change
\* from the snapshot's position on: no change window is skipped.
C18_NoWindowSkipped ==
    out # NoFile => out[2] = out[1]

====
